---- MODULE Spec2Model ----
(***************************************************************************)
(* Model of the BADGE.TEAM framebuffer drawing primitives                  *)
(* (firmware/components/driver_framebuffer/driver_framebuffer_drawing.cpp):*)
(* driver_framebuffer_line, _rect, _triangle, _quad and _circle.           *)
(*                                                                         *)
(* One behaviour is one call of a primitive on a fresh window.  Every loop *)
(* iteration of the code is one action; the pixel writes go through        *)
(* SetPixel, which records the call (last, nWrites) and lights the pixel   *)
(* in the window's buffer fb when it lies inside the window.               *)
(***************************************************************************)
EXTENDS Integers, Sequences, FiniteSets

VARIABLES
    pc,         \* "idle" before the call, "run" inside it, "done" after it returned
    op,         \* the primitive called: "none", "line", "rect", "tri", "quad", "circle"
    args,       \* the arguments of the call (a record; the vertex tuple of a triangle or quad)
    ln,         \* locals of driver_framebuffer_line
    rc,         \* locals of driver_framebuffer_rect
    tr,         \* locals of driver_framebuffer_triangle
    qd,         \* position inside driver_framebuffer_quad
    ci,         \* locals of driver_framebuffer_circle
    fb,         \* the window's buffer: the set of lit pixels <<x, y>>
    last,       \* arguments of the most recent driver_framebuffer_setPixel call
    nWrites,    \* number of driver_framebuffer_setPixel calls (saturating)
    lineCalls   \* number of driver_framebuffer_line calls (saturating)

vars == <<pc, op, args, ln, rc, tr, qd, ci, fb, last, nWrites, lineCalls>>

----------------------------------------------------------------------------
(* Bounds of the model *)

\* line and rectangle coordinates of the small specification: -MaxCoord..MaxCoord
MaxCoord == 2
\* rectangle widths and heights of the small specification: 0..MaxDim
MaxDim == 2
\* the window spans -WinMargin..WinMax on both axes
WinMargin == 4
WinMax == 12
\* nWrites and lineCalls saturate here
MaxWrites == 32
\* fuel of the whole-run operators (loop iterations unrolled at most)
MaxFuel == 40

(* Program constants *)
Int16Max == 32767
Int16Min == -Int16Max - 1
UInt16Max == 65535

----------------------------------------------------------------------------
(* C arithmetic *)

Abs(v) == IF v < 0 THEN -v ELSE v

Min(a, b) == IF a < b THEN a ELSE b

Max(a, b) == IF a < b THEN b ELSE a

\* C integer division truncates toward zero (d > 0)
TruncDiv(n, d) == IF n >= 0 THEN n \div d ELSE -((-n) \div d)

\* conversion of an int to int16_t (modulo 2^16, as GCC defines it)
ToInt16(v) == ((v - Int16Min) % (UInt16Max + 1)) + Int16Min

----------------------------------------------------------------------------
(* The surface *)

Window == (-WinMargin)..WinMax

NoPixel == <<>>

Saturate(n) == Min(n + 1, MaxWrites)

\* driver_framebuffer_setPixel: writes inside the window, ignores the rest
SetPixel(x, y) ==
    /\ fb' = IF x \in Window /\ y \in Window THEN fb \cup {<<x, y>>} ELSE fb
    /\ last' = <<x, y>>
    /\ nWrites' = Saturate(nWrites)

NoWrite == UNCHANGED <<fb, last, nWrites>>

----------------------------------------------------------------------------
(* driver_framebuffer_line *)

LnIdle == [active |-> FALSE, steep |-> FALSE, x0 |-> 0, y0 |-> 0, x1 |-> 0,
           y1 |-> 0, dx |-> 0, dy |-> 0, err |-> 0, ystep |-> 0]

\* a buggy entry that forgets to order the endpoints
LineEnterNoSwap(x0, y0, x1, y1) ==
    LET steep == Abs(y1 - y0) > Abs(x1 - x0)
        a0 == IF steep THEN y0 ELSE x0
        b0 == IF steep THEN x0 ELSE y0
        a1 == IF steep THEN y1 ELSE x1
        b1 == IF steep THEN x1 ELSE y1
        dx == ToInt16(a1 - a0)
    IN  [active |-> TRUE, steep |-> steep, x0 |-> a0, y0 |-> b0, x1 |-> a1,
         y1 |-> b1, dx |-> dx, dy |-> ToInt16(Abs(b1 - b0)),
         err |-> TruncDiv(dx, 2), ystep |-> IF b0 < b1 THEN 1 ELSE -1]

\* lines 121-143: transpose a steep line, order the endpoints, set up the
\* error accumulator.  The arguments are int16_t; the differences are
\* computed in int and stored in int16_t.
LineEnter(x0, y0, x1, y1) ==
    LET steep == Abs(y1 - y0) > Abs(x1 - x0)
        a0 == IF steep THEN y0 ELSE x0
        b0 == IF steep THEN x0 ELSE y0
        a1 == IF steep THEN y1 ELSE x1
        b1 == IF steep THEN x1 ELSE y1
        swap == a0 > a1
        X0 == IF swap THEN a1 ELSE a0
        X1 == IF swap THEN a0 ELSE a1
        Y0 == IF swap THEN b1 ELSE b0
        Y1 == IF swap THEN b0 ELSE b1
        dx == ToInt16(X1 - X0)
    IN  [active |-> TRUE, steep |-> steep, x0 |-> X0, y0 |-> Y0, x1 |-> X1,
         y1 |-> Y1, dx |-> dx, dy |-> ToInt16(Abs(Y1 - Y0)),
         err |-> TruncDiv(dx, 2), ystep |-> IF Y0 < Y1 THEN 1 ELSE -1]

\* line 145: the loop condition
LineMore(f) == f.x0 <= f.x1

\* lines 146-150: the pixel of this iteration
LinePixel(f) == IF f.steep THEN <<f.y0, f.x0>> ELSE <<f.x0, f.y0>>

\* lines 151-155 and the x0++ of line 145
LineStep(f) ==
    LET e1 == ToInt16(f.err - f.dy)
    IN  IF e1 < 0
        THEN [f EXCEPT !.err = ToInt16(e1 + f.dx),
                       !.y0 = ToInt16(f.y0 + f.ystep),
                       !.x0 = ToInt16(f.x0 + 1)]
        ELSE [f EXCEPT !.err = e1, !.x0 = ToInt16(f.x0 + 1)]

\* the pixels the loop writes from frame f on, at most n iterations
RECURSIVE LineRun(_, _)
LineRun(f, n) ==
    IF n = 0 \/ ~LineMore(f) THEN <<>>
    ELSE <<LinePixel(f)>> \o LineRun(LineStep(f), n - 1)

\* the sequence and the set of pixels of a whole call
LineSeq(x0, y0, x1, y1) == LineRun(LineEnter(x0, y0, x1, y1), MaxFuel)

LineSet(x0, y0, x1, y1) ==
    LET s == LineSeq(x0, y0, x1, y1) IN {s[k] : k \in 1..Len(s)}

\* one iteration of the loop of line 145
LineIter ==
    /\ pc = "run"
    /\ ln.active
    /\ LineMore(ln)
    /\ SetPixel(LinePixel(ln)[1], LinePixel(ln)[2])
    /\ ln' = LineStep(ln)
    /\ UNCHANGED <<pc, op, args, rc, tr, qd, ci, lineCalls>>

\* the loop condition fails: the call returns to its caller
LineExit ==
    /\ pc = "run"
    /\ ln.active
    /\ ~LineMore(ln)
    /\ ln' = [ln EXCEPT !.active = FALSE]
    /\ pc' = IF op = "line" THEN "done" ELSE pc
    /\ NoWrite
    /\ UNCHANGED <<op, args, rc, tr, qd, ci, lineCalls>>

CallLine(x0, y0, x1, y1) ==
    /\ pc = "idle"
    /\ pc' = "run"
    /\ op' = "line"
    /\ args' = [x0 |-> x0, y0 |-> y0, x1 |-> x1, y1 |-> y1]
    /\ ln' = LineEnter(x0, y0, x1, y1)
    /\ lineCalls' = Saturate(lineCalls)
    /\ NoWrite
    /\ UNCHANGED <<rc, tr, qd, ci>>

----------------------------------------------------------------------------
(* driver_framebuffer_rect *)

RcIdle == [i |-> 0, k |-> 0]

\* line 259: the loop condition, i an int16_t, x + w an int
RectMore(i, x, w) == i < x + w

\* lines 263-266: the k-th outline edge, as the int16_t arguments of Line
RectEdge(k, x, y, w, h) ==
    LET xr == ToInt16(x + w - 1)
        yb == ToInt16(y + h - 1)
    IN  CASE k = 0 -> <<x, y, xr, y>>
          [] k = 1 -> <<x, yb, xr, yb>>
          [] k = 2 -> <<x, y, x, yb>>
          [] OTHER -> <<xr, y, xr, yb>>

CallRect(x, y, w, h, fill) ==
    /\ pc = "idle"
    /\ pc' = "run"
    /\ op' = "rect"
    /\ args' = [x |-> x, y |-> y, w |-> w, h |-> h, fill |-> fill]
    /\ rc' = [i |-> x, k |-> 0]
    /\ NoWrite
    /\ UNCHANGED <<ln, tr, qd, ci, lineCalls>>

\* lines 259-260: one column of the fill.  The i++ that follows the call is
\* folded into this step: Line has no access to i.
RectFillColumn ==
    /\ pc = "run" /\ op = "rect" /\ args.fill
    /\ ~ln.active
    /\ RectMore(rc.i, args.x, args.w)
    /\ ln' = LineEnter(rc.i, args.y, rc.i, ToInt16(args.y + args.h - 1))
    /\ rc' = [rc EXCEPT !.i = ToInt16(rc.i + 1)]
    /\ lineCalls' = Saturate(lineCalls)
    /\ NoWrite
    /\ UNCHANGED <<pc, op, args, tr, qd, ci>>

\* lines 263-266: the next edge of the outline
RectOutlineEdge ==
    /\ pc = "run" /\ op = "rect" /\ ~args.fill
    /\ ~ln.active
    /\ rc.k < 4
    /\ LET e == RectEdge(rc.k, args.x, args.y, args.w, args.h)
       IN  ln' = LineEnter(e[1], e[2], e[3], e[4])
    /\ rc' = [rc EXCEPT !.k = rc.k + 1]
    /\ lineCalls' = Saturate(lineCalls)
    /\ NoWrite
    /\ UNCHANGED <<pc, op, args, tr, qd, ci>>

RectReturn ==
    /\ pc = "run" /\ op = "rect"
    /\ ~ln.active
    /\ IF args.fill THEN ~RectMore(rc.i, args.x, args.w) ELSE rc.k = 4
    /\ pc' = "done"
    /\ NoWrite
    /\ UNCHANGED <<op, args, ln, rc, tr, qd, ci, lineCalls>>

----------------------------------------------------------------------------
(* Exact arithmetic for the double computations of the triangle.  A value   *)
(* is a fraction <<n, d>> with d > 0.  The vertices of the model are        *)
(* integer-valued doubles, for which the exact value and the IEEE double    *)
(* value of every expression below truncate to the same integer.            *)

R(n) == <<n, 1>>

RAdd(a, b) == <<a[1] * b[2] + b[1] * a[2], a[2] * b[2]>>

RSub(a, b) == <<a[1] * b[2] - b[1] * a[2], a[2] * b[2]>>

RMul(a, b) == <<a[1] * b[1], a[2] * b[2]>>

\* a / b for b # 0
RDiv(a, b) ==
    IF b[1] > 0 THEN <<a[1] * b[2], a[2] * b[1]>>
    ELSE <<-(a[1] * b[2]), a[2] * (-b[1])>>

\* the (int) cast of a double: truncation toward zero
RTrunc(a) == TruncDiv(a[1], a[2])

\* the result of a division by zero (NaN or an infinity); the code computes
\* such values only for passes whose loop runs zero times
NotANumber == <<0, 0>>

\* the conversion of an integer-valued double to float (|v| <= 2^25):
\* exact up to 2^24, then to the nearest even integer, ties to the even
\* significand
FloatOf(v) ==
    IF Abs(v) <= 16777216 \/ v % 2 = 0 THEN v
    ELSE IF (v + 1) % 4 = 0 THEN v + 1 ELSE v - 1

----------------------------------------------------------------------------
(* driver_framebuffer_triangle *)

TrIdle == [active |-> FALSE, x0 |-> 0, y0 |-> 0, x1 |-> 0, y1 |-> 0, x2 |-> 0,
           y2 |-> 0, xMiddle |-> R(0), pass |-> "upper", nSteps |-> 0,
           i |-> 0, inRow |-> FALSE, y |-> 0, xC0 |-> 0, xC1 |-> 0,
           nXSteps |-> 0, xStepMult |-> 0, j |-> 0]

\* lines 164-172 and 191-199: swap points 1 and 0 through the float temp
Swap01(v) ==
    IF v[4] < v[2]
    THEN <<v[3], v[4], FloatOf(v[1]), FloatOf(v[2]), v[5], v[6]>>
    ELSE v

\* lines 173-181: swap points 2 and 1
Swap12(v) ==
    IF v[6] < v[4]
    THEN <<v[1], v[2], v[5], v[6], FloatOf(v[3]), FloatOf(v[4])>>
    ELSE v

\* lines 182-190: swap points 2 and 0
Swap02(v) ==
    IF v[6] < v[2]
    THEN <<v[5], v[6], v[3], v[4], FloatOf(v[1]), FloatOf(v[2])>>
    ELSE v

\* lines 164-199: the four compare-and-swap steps
TriSort(v) == Swap01(Swap02(Swap12(Swap01(v))))

\* lines 202 and 224: nSteps = (int) (yDist + 0.9999)
StepCount(yDist) == RTrunc(RAdd(R(yDist), <<9999, 10000>>))

\* line 204
XMiddle(v) ==
    IF v[6] = v[2] THEN NotANumber
    ELSE RAdd(R(v[1]),
              RMul(RDiv(R(v[5] - v[1]), R(v[6] - v[2])), R(v[4] - v[2])))

\* lines 201-207: the locals before the upper pass, v the sorted vertices
TriEnter(v) ==
    [active |-> TRUE, x0 |-> v[1], y0 |-> v[2], x1 |-> v[3], y1 |-> v[4],
     x2 |-> v[5], y2 |-> v[6], xMiddle |-> XMiddle(v), pass |-> "upper",
     nSteps |-> StepCount(v[4] - v[2]), i |-> 0, inRow |-> FALSE, y |-> 0,
     xC0 |-> 0, xC1 |-> 0, nXSteps |-> 0, xStepMult |-> 0, j |-> 0]

Half == <<1, 2>>

\* start + (span / nSteps [+ extra]) * i + 0.5, cast to int
Interp(start, span, extra, n, i) ==
    RTrunc(RAdd(RAdd(start, RMul(RAdd(RDiv(span, R(n)), extra), R(i))), Half))

\* line 225: the constant added to the row step of the lower pass
YStepExtra == <<1, 100>>

\* lines 209-211 (upper pass) and 230-232 (lower pass): row and boundaries
RowY(t) ==
    IF t.pass = "upper"
    THEN Interp(R(t.y0), R(t.y1 - t.y0), R(0), t.nSteps, t.i)
    ELSE Interp(R(t.y1), R(t.y2 - t.y1), YStepExtra, t.nSteps, t.i)

RowXC0(t) ==
    IF t.pass = "upper"
    THEN Interp(R(t.x0), RSub(t.xMiddle, R(t.x0)), R(0), t.nSteps, t.i)
    ELSE Interp(t.xMiddle, RSub(R(t.x2), t.xMiddle), R(0), t.nSteps, t.i)

RowXC1(t) ==
    IF t.pass = "upper"
    THEN Interp(R(t.x0), R(t.x1 - t.x0), R(0), t.nSteps, t.i)
    ELSE Interp(R(t.x1), R(t.x2 - t.x1), R(0), t.nSteps, t.i)

\* a span that also plots the far boundary column
SpanLenClosed(xC0, xC1) == Abs(xC0 - xC1) + 1

\* lines 212-217 and 233-238: the number of pixels of the row
SpanLen(xC0, xC1) == Abs(xC0 - xC1)

\* lines 213-217 and 234-238: the direction of the row
SpanDir(xC0, xC1) == IF xC0 - xC1 < 0 THEN 1 ELSE -1

\* lines 208-217 and 229-238: a row begins
TriRow ==
    /\ pc = "run"
    /\ tr.active /\ ~tr.inRow
    /\ tr.i < tr.nSteps
    /\ tr' = [tr EXCEPT !.inRow = TRUE,
                        !.y = RowY(tr),
                        !.xC0 = RowXC0(tr),
                        !.xC1 = RowXC1(tr),
                        !.nXSteps = SpanLen(RowXC0(tr), RowXC1(tr)),
                        !.xStepMult = SpanDir(RowXC0(tr), RowXC1(tr)),
                        !.j = 0]
    /\ NoWrite
    /\ UNCHANGED <<pc, op, args, ln, rc, qd, ci, lineCalls>>

\* lines 218-220 and 239-241: one pixel of the row
TriPixel ==
    /\ pc = "run"
    /\ tr.active /\ tr.inRow
    /\ tr.j < tr.nXSteps
    /\ SetPixel(tr.xC0 + tr.j * tr.xStepMult, tr.y)
    /\ tr' = [tr EXCEPT !.j = tr.j + 1]
    /\ UNCHANGED <<pc, op, args, ln, rc, qd, ci, lineCalls>>

\* the row is complete: i++
TriRowEnd ==
    /\ pc = "run"
    /\ tr.active /\ tr.inRow
    /\ tr.j >= tr.nXSteps
    /\ tr' = [tr EXCEPT !.inRow = FALSE, !.i = tr.i + 1]
    /\ NoWrite
    /\ UNCHANGED <<pc, op, args, ln, rc, qd, ci, lineCalls>>

\* lines 223-227: the upper pass is over, set up the lower pass
TriLower ==
    /\ pc = "run"
    /\ tr.active /\ ~tr.inRow
    /\ tr.pass = "upper"
    /\ tr.i >= tr.nSteps
    /\ tr' = [tr EXCEPT !.pass = "lower",
                        !.nSteps = StepCount(tr.y2 - tr.y1),
                        !.i = 0]
    /\ NoWrite
    /\ UNCHANGED <<pc, op, args, ln, rc, qd, ci, lineCalls>>

\* the lower pass is over: the call returns
TriReturn ==
    /\ pc = "run"
    /\ tr.active /\ ~tr.inRow
    /\ tr.pass = "lower"
    /\ tr.i >= tr.nSteps
    /\ tr' = [tr EXCEPT !.active = FALSE]
    /\ pc' = IF op = "tri" THEN "done" ELSE pc
    /\ NoWrite
    /\ UNCHANGED <<op, args, ln, rc, qd, ci, lineCalls>>

CallTriangle(x0, y0, x1, y1, x2, y2) ==
    /\ pc = "idle"
    /\ pc' = "run"
    /\ op' = "tri"
    /\ args' = <<x0, y0, x1, y1, x2, y2>>
    /\ tr' = TriEnter(TriSort(<<x0, y0, x1, y1, x2, y2>>))
    /\ NoWrite
    /\ UNCHANGED <<ln, rc, qd, ci, lineCalls>>

----------------------------------------------------------------------------
(* driver_framebuffer_quad *)

\* a quad that draws the first split twice
QuadTriOneSplit(k, a) ==
    IF k = 0 \/ k = 2 THEN <<a[1], a[2], a[3], a[4], a[5], a[6]>>
    ELSE <<a[3], a[4], a[7], a[8], a[5], a[6]>>

\* lines 248-252: the vertices of the k-th triangle, a the eight arguments
QuadTri(k, a) ==
    CASE k = 0 -> <<a[1], a[2], a[3], a[4], a[5], a[6]>>
      [] k = 1 -> <<a[3], a[4], a[7], a[8], a[5], a[6]>>
      [] k = 2 -> <<a[1], a[2], a[3], a[4], a[7], a[8]>>
      [] OTHER -> <<a[3], a[4], a[5], a[6], a[7], a[8]>>

CallQuad(a) ==
    /\ pc = "idle"
    /\ pc' = "run"
    /\ op' = "quad"
    /\ args' = a
    /\ qd' = 0
    /\ NoWrite
    /\ UNCHANGED <<ln, rc, tr, ci, lineCalls>>

\* the next of the four triangle calls
QuadCall ==
    /\ pc = "run" /\ op = "quad"
    /\ ~tr.active
    /\ qd < 4
    /\ tr' = TriEnter(TriSort(QuadTri(qd, args)))
    /\ qd' = qd + 1
    /\ NoWrite
    /\ UNCHANGED <<pc, op, args, ln, rc, ci, lineCalls>>

QuadReturn ==
    /\ pc = "run" /\ op = "quad"
    /\ ~tr.active
    /\ qd = 4
    /\ pc' = "done"
    /\ NoWrite
    /\ UNCHANGED <<op, args, ln, rc, tr, qd, ci, lineCalls>>

----------------------------------------------------------------------------
(* driver_framebuffer_circle *)

CiIdle == [ret |-> FALSE, startAngle |-> 0, endAngle |-> 0, f |-> 0, i |-> 0,
           havePrevPixel |-> FALSE, prevX |-> 0, prevY |-> 0]

\* cos and sin of 0, 1, ... 8 degrees, in millionths
TrigScale == 1000000

CosTab == <<1000000, 999848, 999391, 998630, 997564, 996195, 994522, 992546,
            990268>>

SinTab == <<0, 17452, 34899, 52336, 69756, 87156, 104528, 121869, 139173>>

\* lines 280-282: c0 + f * cos(i degrees), a double, cast to int
CirclePX(c0, f, i) == TruncDiv(c0 * TrigScale + f * CosTab[i + 1], TrigScale)

CirclePY(c0, f, i) == TruncDiv(c0 * TrigScale + f * SinTab[i + 1], TrigScale)

\* an entry that orders reversed angles instead of returning
CircleEnterOrdered(r, startAngle, endAngle, fill) ==
    [ret |-> startAngle = endAngle,
     startAngle |-> Min(startAngle, endAngle),
     endAngle |-> Max(startAngle, endAngle),
     f |-> IF fill THEN 0 ELSE r, i |-> Min(startAngle, endAngle),
     havePrevPixel |-> FALSE, prevX |-> 0, prevY |-> 0]

\* lines 273-279: the early return, and the locals at the first sample
CircleEnter(r, startAngle, endAngle, fill) ==
    [ret |-> startAngle >= endAngle,
     startAngle |-> startAngle, endAngle |-> endAngle,
     f |-> IF fill THEN 0 ELSE r, i |-> startAngle,
     havePrevPixel |-> FALSE, prevX |-> 0, prevY |-> 0]

CallCircle(x0, y0, r, startAngle, endAngle, fill) ==
    /\ pc = "idle"
    /\ op' = "circle"
    /\ args' = [x0 |-> x0, y0 |-> y0, r |-> r, startAngle |-> startAngle,
                endAngle |-> endAngle, fill |-> fill]
    /\ ci' = CircleEnter(r, startAngle, endAngle, fill)
    /\ pc' = IF ci'.ret THEN "done" ELSE "run"
    /\ NoWrite
    /\ UNCHANGED <<ln, rc, tr, qd, lineCalls>>

\* lines 279-290: one sample of the sweep, joined to the previous one by a
\* Line when it lands on another pixel
CircleSample ==
    /\ pc = "run" /\ op = "circle"
    /\ ~ln.active
    /\ ci.f <= args.r
    /\ ci.i < ci.endAngle
    /\ LET px == CirclePX(args.x0, ci.f, ci.i)
           py == CirclePY(args.y0, ci.f, ci.i)
       IN  /\ IF ci.havePrevPixel /\ (ci.prevX # px \/ ci.prevY # py)
              THEN /\ ln' = LineEnter(ToInt16(ci.prevX), ToInt16(ci.prevY),
                                      ToInt16(px), ToInt16(py))
                   /\ lineCalls' = Saturate(lineCalls)
                   /\ NoWrite
              ELSE /\ SetPixel(px, py)
                   /\ UNCHANGED <<ln, lineCalls>>
           /\ ci' = [ci EXCEPT !.prevX = px, !.prevY = py,
                               !.havePrevPixel = TRUE, !.i = ci.i + 1]
    /\ UNCHANGED <<pc, op, args, rc, tr, qd>>

\* lines 277-279: the sweep of this radius is over: f++, and the sweep of
\* the next radius starts without a previous pixel
CircleNextRadius ==
    /\ pc = "run" /\ op = "circle"
    /\ ~ln.active
    /\ ci.f <= args.r
    /\ ci.i >= ci.endAngle
    /\ ci' = [ci EXCEPT !.f = ci.f + 1, !.i = ci.startAngle,
                        !.havePrevPixel = FALSE]
    /\ NoWrite
    /\ UNCHANGED <<pc, op, args, ln, rc, tr, qd, lineCalls>>

CircleReturn ==
    /\ pc = "run" /\ op = "circle"
    /\ ~ln.active
    /\ ci.f > args.r
    /\ pc' = "done"
    /\ NoWrite
    /\ UNCHANGED <<op, args, ln, rc, tr, qd, ci, lineCalls>>

----------------------------------------------------------------------------
(* Specifications *)

Init ==
    /\ pc = "idle"
    /\ op = "none"
    /\ args = <<>>
    /\ ln = LnIdle
    /\ rc = RcIdle
    /\ tr = TrIdle
    /\ qd = 0
    /\ ci = CiIdle
    /\ fb = {}
    /\ last = NoPixel
    /\ nWrites = 0
    /\ lineCalls = 0

SmallCoords == (-MaxCoord)..MaxCoord

SmallDims == 0..MaxDim

\* lines and rectangles with small coordinates
NextSmall ==
    \/ \E x0, y0, x1, y1 \in SmallCoords : CallLine(x0, y0, x1, y1)
    \/ \E x, y \in SmallCoords, w, h \in SmallDims, fill \in BOOLEAN :
           CallRect(x, y, w, h, fill)
    \/ LineIter
    \/ LineExit
    \/ RectFillColumn
    \/ RectOutlineEdge
    \/ RectReturn

SpecSmall == Init /\ [][NextSmall]_vars

(* Lines and rectangles at the ends of the int16_t and uint16_t ranges *)

WideLines ==
    { <<Int16Max, 0, Int16Max, 0>>,
      <<Int16Min, 0, 0, 0>>,
      <<0, 0, Int16Min, 0>>,
      <<0, Int16Max - 2, 0, Int16Max>>,
      <<Int16Max - 3, 0, Int16Max - 1, 1>> }

WideRects ==
    { <<Int16Max, 0, 1, 1, TRUE>>,
      <<0, Int16Min, 1, UInt16Max, TRUE>>,
      <<Int16Max - 3, 0, 2, 2, TRUE>>,
      <<Int16Max - 3, 0, 2, 2, FALSE>> }

NextWide ==
    \/ \E a \in WideLines : CallLine(a[1], a[2], a[3], a[4])
    \/ \E a \in WideRects : CallRect(a[1], a[2], a[3], a[4], a[5])
    \/ LineIter
    \/ LineExit
    \/ RectFillColumn
    \/ RectOutlineEdge
    \/ RectReturn

SpecWide == Init /\ [][NextWide]_vars

\* a call, once made, keeps running: the code has no suspension point
FairWide == SpecWide /\ WF_vars(NextWide)

(* Triangles and quads *)

\* vertex coordinates whose quotients are exact in binary
TriXs == {-4, 0, 4, 8}

TriYs == {-4, 0, 4}

\* a triangle whose lower pass has more than 150 rows
TallTris == { <<0, 0, 160, 0, 0, 152>> }

\* the corners of the square of side 10
QuadXYs == {0, 10}

NextTri ==
    \/ \E x0, x1, x2 \in TriXs, y0, y1, y2 \in TriYs :
           CallTriangle(x0, y0, x1, y1, x2, y2)
    \/ \E a \in TallTris : CallTriangle(a[1], a[2], a[3], a[4], a[5], a[6])
    \/ \E x0, y0, x1, y1, x2, y2, x3, y3 \in QuadXYs :
           CallQuad(<<x0, y0, x1, y1, x2, y2, x3, y3>>)
    \/ TriRow
    \/ TriPixel
    \/ TriRowEnd
    \/ TriLower
    \/ TriReturn
    \/ QuadCall
    \/ QuadReturn

SpecTri == Init /\ [][NextTri]_vars

(* Arcs *)

MaxRadius == 3
MaxAngle == 3

\* arc centers left of, at and right of the origin
CircleCenters == {-MaxCoord, 0, MaxCoord}

NextCircle ==
    \/ \E x0, y0 \in CircleCenters, r \in 0..MaxRadius,
          s, e \in 0..MaxAngle, fill \in BOOLEAN :
           CallCircle(x0, y0, r, s, e, fill)
    \/ CircleSample
    \/ CircleNextRadius
    \/ CircleReturn
    \/ LineIter
    \/ LineExit

SpecCircle == Init /\ [][NextCircle]_vars

----------------------------------------------------------------------------
(* Properties *)

Written == last # NoPixel

InWindow(p) == p[1] \in Window /\ p[2] \in Window

\* the pixels of the fill of lines 259-261 (x + w and y + h in int16_t range)
RectFillSet(x, y, w, h) ==
    UNION { LineSet(i, y, i, y + h - 1) : i \in x..(x + w - 1) }

\* coordinates at the ends of the int16_t range, where dx, dy and err wrap
EdgeCoords == {Int16Min, Int16Min + 1, -1, 0, 1, Int16Max - 1, Int16Max}

\* C1: the set of pixels written by Line(x0,y0,x1,y1) is the set written by
\* Line(x1,y1,x0,y0): when the call has returned, the window holds exactly
\* the pixels the call with the endpoints exchanged writes (and no write
\* fell outside the window, so the window holds every pixel written).
\* For endpoints at the ends of the int16_t range both argument orders
\* enter the loop with the same locals, hence write the same pixels.
C1_LineSymmetric ==
    /\ op = "line" =>
           /\ Written => InWindow(last)
           /\ pc = "done" => fb = LineSet(args.x1, args.y1, args.x0, args.y0)
    /\ pc = "idle" =>
           \A x0, y0, x1, y1 \in EdgeCoords :
               LineEnter(x0, y0, x1, y1) = LineEnter(x1, y1, x0, y0)

\* a steep line drawn from its far end has returned
C1_Witness ==
    /\ pc = "done" /\ op = "line"
    /\ ln.steep
    /\ args.y0 > args.y1 /\ args.x0 # args.x1
    /\ nWrites = 2 * MaxCoord + 1

\* the extent of the line along its dominant axis
LineExtent == Max(Abs(args.x1 - args.x0), Abs(args.y1 - args.y0))

LineIsSteep == Abs(args.y1 - args.y0) > Abs(args.x1 - args.x0)

\* the coordinate of pixel p on the dominant and on the other axis
Major(p) == IF LineIsSteep THEN p[2] ELSE p[1]

Minor(p) == IF LineIsSteep THEN p[1] ELSE p[2]

MajorLow == IF LineIsSteep THEN Min(args.y0, args.y1) ELSE Min(args.x0, args.x1)

\* C2: Line issues exactly max(|x1-x0|,|y1-y0|)+1 pixel writes, the k-th at
\* the k-th integer coordinate of the dominant axis between the endpoints;
\* consecutive writes differ by at most 1 in the other axis; the pixels of
\* a horizontal or vertical line are those of the segment.
C2_LineWritesExact ==
    op = "line" =>
        /\ nWrites <= LineExtent + 1
        /\ pc = "done" => nWrites = Min(LineExtent + 1, MaxWrites)
        /\ (Written /\ nWrites < MaxWrites) =>
               Major(last) = MajorLow + nWrites - 1
        /\ (Written /\ ln.active /\ LineMore(ln)) =>
               Abs(Minor(LinePixel(ln)) - Minor(last)) <= 1
        /\ (Written /\ args.y0 = args.y1) => last[2] = args.y0
        /\ (Written /\ args.x0 = args.x1) => last[1] = args.x0

\* the arguments are in the range claim C3 covers
RectInRange ==
    /\ args.w >= 1 /\ args.h >= 1
    /\ args.x + args.w - 1 <= Int16Max
    /\ args.y + args.h - 1 <= Int16Max

RectRegion ==
    { <<px, py>> \in Window \X Window :
        /\ args.x <= px /\ px < args.x + args.w
        /\ args.y <= py /\ py < args.y + args.h }

\* C3: Rectangle with fill=true, w >= 1, h >= 1 writes exactly w*h distinct
\* pixels, the pixels of [x,x+w) x [y,y+h), and none outside that region.
C3_RectFillExact ==
    (op = "rect" /\ args.fill /\ RectInRange) =>
        /\ Written => /\ args.x <= last[1] /\ last[1] < args.x + args.w
                      /\ args.y <= last[2] /\ last[2] < args.y + args.h
        /\ pc = "done" => /\ nWrites = Min(args.w * args.h, MaxWrites)
                          /\ fb = RectRegion

\* C4: Rectangle with width 0 or height 0 issues no pixel write, in fill
\* mode and in outline mode.
C4_RectEmptyNoWrite ==
    (op = "rect" /\ (args.w = 0 \/ args.h = 0)) => nWrites = 0

\* the square of claim C5
Square10 == <<0, 0, 10, 0, 10, 10, 0, 10>>

\* the pixels of column 10 the quad writes beside the rectangle
Square10Extra == { <<10, py>> : py \in 1..9 }

\* C5 as stated: Quad on (0,0),(10,0),(10,10),(0,10) writes exactly the
\* pixel set of the Rectangle fill x=0, y=0, w=10, h=10.
C5_QuadEqualsRect ==
    (op = "quad" /\ args = Square10) =>
        /\ Written => last \in RectFillSet(0, 0, 10, 10)
        /\ pc = "done" => fb = RectFillSet(0, 0, 10, 10)

\* C5 amended: Quad on (0,0),(10,0),(10,10),(0,10) writes every pixel of the
\* Rectangle fill x=0, y=0, w=10, h=10 and, outside it, exactly the nine
\* pixels (10,1) ... (10,9).
C5_QuadCoversRect ==
    (op = "quad" /\ args = Square10) =>
        /\ Written => last \in RectFillSet(0, 0, 10, 10) \cup Square10Extra
        /\ pc = "done" => fb = RectFillSet(0, 0, 10, 10) \cup Square10Extra

\* the quad on the square has returned, column 10 and the far corner lit
C5_Witness ==
    /\ pc = "done" /\ op = "quad" /\ args = Square10
    /\ <<10, 5>> \in fb /\ <<0, 9>> \in fb

\* the three vertices of the triangle call are not collinear
TriProper ==
    (args[3] - args[1]) * (args[6] - args[2])
        # (args[5] - args[1]) * (args[4] - args[2])

\* C6: every pixel write of a non-degenerate Triangle, in both passes, has
\* a row between the smallest and the largest vertex y.
C6_TriRowsInside ==
    (op = "tri" /\ TriProper /\ Written) =>
        /\ Min(args[2], Min(args[4], args[6])) <= last[2]
        /\ last[2] <= Max(args[2], Max(args[4], args[6]))

\* C7: every call terminates: once made, it returns after finitely many
\* pixel writes.
C7_Terminates == <>(pc = "done")

\* C8: Circle with startAngle >= endAngle issues no pixel write and no Line
\* call, and returns at once.
C8_CircleEmptyArc ==
    (op = "circle" /\ args.startAngle >= args.endAngle) =>
        /\ pc = "done"
        /\ nWrites = 0
        /\ lineCalls = 0

\* a filled arc with reversed angles and a positive radius has returned
C8_Witness ==
    /\ pc = "done" /\ op = "circle"
    /\ args.startAngle > args.endAngle
    /\ args.r > 0 /\ args.fill

\* the current row of the triangle is complete
RowDone == tr.active /\ tr.inRow /\ tr.j >= tr.nXSteps

\* C9 as stated: a complete scan row holds every column of the closed
\* interval between xC0 and xC1, both boundary columns included.
C9_TriSpanClosed ==
    RowDone =>
        \A c \in Min(tr.xC0, tr.xC1)..Max(tr.xC0, tr.xC1) :
            InWindow(<<c, tr.y>>) => <<c, tr.y>> \in fb

\* the k-th column of the row, walking from xC0 toward xC1
RowColumn(k) == IF tr.xC0 < tr.xC1 THEN tr.xC0 + k ELSE tr.xC0 - k

\* C9 amended: a scan row writes the |xC0 - xC1| columns from xC0 toward
\* xC1, xC0 included and xC1 excluded, one write per column; when
\* xC0 = xC1 the row writes no pixel.
C9_TriSpanHalfOpen ==
    (tr.active /\ tr.inRow) =>
        /\ tr.j <= Abs(tr.xC0 - tr.xC1)
        /\ RowDone => tr.j = Abs(tr.xC0 - tr.xC1)
        /\ tr.j > 0 => /\ last = <<RowColumn(tr.j - 1), tr.y>>
                       /\ last[1] # tr.xC1
        /\ \A k \in 0..(tr.j - 1) :
               InWindow(<<RowColumn(k), tr.y>>) =>
                   <<RowColumn(k), tr.y>> \in fb

\* a row walked right to left is complete: its near boundary column is
\* lit and its far boundary column is not
C9_Witness ==
    /\ op = "tri" /\ RowDone
    /\ tr.xC0 > tr.xC1 + 1
    /\ <<tr.xC0, tr.y>> \in fb
    /\ <<tr.xC1, tr.y>> \notin fb

\* C10: every pixel written by Line lies inside the bounding box of the
\* two endpoints.
C10_LineInBBox ==
    (op = "line" /\ Written) =>
        /\ Min(args.x0, args.x1) <= last[1] /\ last[1] <= Max(args.x0, args.x1)
        /\ Min(args.y0, args.y1) <= last[2] /\ last[2] <= Max(args.y0, args.y1)

====
